---- MODULE Spec2Model ----
(***************************************************************************)
(* Model of obp/dataset/multiclass.py: MultiClassToBanditReduction.        *)
(* One dataset object; its attributes are the variables below.  `attrs` is *)
(* the set of attribute names currently present on the object (Python      *)
(* raises AttributeError on a read of a name that is not in it).           *)
(*                                                                         *)
(* Probabilities are floating point numbers.  numpy computes them in       *)
(* binary64; the model keeps the same round-to-nearest-even arithmetic at  *)
(* a reduced width: a float is an integer count of units of 2^-FracBits    *)
(* whose significand has at most MantBits bits.                            *)
(***************************************************************************)
EXTENDS Integers, Sequences, FiniteSets, TLC

\* ---------------------------------------------------------------- bounds
MaxRounds   == 3        \* rows of the datasets that are built and split
MaxOpRounds == 2        \* rows of the datasets every operation is run on
MaxPolicyRounds == 3    \* rows of the datasets the policies are built on
MantBits  == 5          \* significand width of the model's floats
FracBits  == 12         \* a float is a multiple of 2^-FracBits
RngPeriod == 2          \* the count of global draws is kept modulo this

RawLabels == {-1, 0, 1}  \* raw class labels of the input label vector

\* ------------------------------------------------- floating point values
One == 2^FracBits
Eps == 2^(FracBits - MantBits + 1)     \* machine epsilon, in units

RECURSIVE Quantum(_, _, _)
\* spacing of the floats around num/den: the least power of two q with
\* num/den < q * 2^MantBits
Quantum(num, den, q) ==
    IF num >= den * q * 2^MantBits THEN Quantum(num, den, 2 * q) ELSE q

\* round-half-to-even of the non-negative rational n/d to an integer
RoundHalfEven(n, d) ==
    LET fl  == n \div d
        rem == n - fl * d
    IN  IF 2 * rem < d THEN fl
        ELSE IF 2 * rem > d THEN fl + 1
        ELSE IF fl % 2 = 0 THEN fl ELSE fl + 1

\* Quantum by integer part, tabulated once for the magnitudes up to 4.0
QuantumTable == [v \in 0..(4 * One) |-> Quantum(v, 1, 1)]

\* the float nearest to the non-negative rational num/den (in units)
Round(num, den) ==
    LET v == num \div den
        q == IF v <= 4 * One THEN QuantumTable[v] ELSE Quantum(num, den, 1)
    IN  q * RoundHalfEven(num, den * q)

FAdd(a, b)  == Round(a + b, 1)
FSub(a, b)  == Round(a - b, 1)
FDiv(a, b)  == Round(a * One, b)          \* float / float
FDivInt(a, n) == Round(a, n)              \* float / integer count

RECURSIVE FSum(_)
\* left to right float sum of a sequence of floats
FSum(s) == IF Len(s) = 0 THEN 0
           ELSE FAdd(FSum(SubSeq(s, 1, Len(s) - 1)), s[Len(s)])

\* a float literal num/den of the caller
Literal(num, den) == Round(num * One, den)

\* ------------------------------------------------------------ the object
VARIABLES
    attrs,        \* names of the attributes the object has
    X,            \* feature rows
    y,            \* labels (re-indexed by __post_init__)
    y_full,       \* fully observed reward matrix, rows are [0..k-1 -> {0,1}]
    alpha_b,      \* mixing coefficient of the behavior policy (a float)
    X_tr, X_ev, y_tr, y_ev, y_full_ev, n_rounds_ev,   \* the current split
    np_random,    \* numpy's global generator: the count of its draws
    op,           \* the method called last
    arg,          \* its arguments
    ret,          \* what it returned or raised
    last_fb       \* history: a feedback returned since the last split

vars == <<attrs, X, y, y_full, alpha_b, X_tr, X_ev, y_tr, y_ev, y_full_ev,
          n_rounds_ev, np_random, op, arg, ret, last_fb>>

dataset == <<attrs, X, y, y_full, alpha_b, X_tr, X_ev, y_tr, y_ev,
             y_full_ev, n_rounds_ev>>

CtorAttrs  == {"X", "y", "base_classifier_b", "alpha_b", "dataset_name",
               "y_full"}
SplitAttrs == {"X_tr", "X_ev", "y_tr", "y_ev", "y_full_ev", "n_rounds_ev"}

None == [kind |-> "none"]
Error(type, line) == [kind |-> "error", type |-> type, line |-> line]

\* the call raised: nothing of the object or of the generator changes
Raise(type, line) ==
    /\ ret' = Error(type, line)
    /\ UNCHANGED <<dataset, np_random, last_fb>>

Range(s) == {s[i] : i \in DOMAIN s}

\* the object exists once __post_init__ has returned
Constructed == "y_full" \in attrs

\* the mutant: X_tr exists (empty) from construction on
HasAttr_TrainSetPreset(name) == name \in attrs \cup {"X_tr"}

\* a read of self.<name> succeeds only when the attribute has been set
HasAttr(name) == name \in attrs

\* ------------------------------------------------------------ properties
n_rounds_of(yv)  == Len(yv)
n_actions_of(yv) == Cardinality(Range(yv))
n_rounds  == n_rounds_of(y)
n_actions == n_actions_of(y)
len_list  == 1

\* ---------------------------------------------------------- constructor
\* scipy.stats.rankdata(y, "dense") - 1
DenseRank(yv) ==
    [i \in DOMAIN yv |-> Cardinality({v \in Range(yv) : v < yv[i]})]

\* numpy integer index j into an axis of length k: negative indices wrap
IndexInBounds(j, k) == -k <= j /\ j < k
WrapIndex(j, k)     == IF j < 0 THEN j + k ELSE j

\* y_full = zeros((n_rounds, n_actions)); y_full[arange(n_rounds), idx] = 1
OneHot(idx, k) ==
    [i \in DOMAIN idx |->
        [c \in 0..(k - 1) |-> IF c = WrapIndex(idx[i], k) THEN 1 ELSE 0]]

AlphaInputs ==
    {[isfloat |-> TRUE, val |-> v] :
        v \in {Literal(0, 1), Literal(3, 10), Literal(1, 1), Literal(6, 5),
               0 - Literal(1, 5)}}
    \cup {[isfloat |-> FALSE, val |-> 0]}

FeatureRow(i) == 100 + i
Features(n)   == [i \in 1..n |-> FeatureRow(i)]
LabelVectors(labels, maxn) == UNION {[1..n -> labels] : n \in 1..maxn}
\* the label vectors whose rows come class by class
SortedLabelVectors(labels, maxn) ==
    {v \in LabelVectors(labels, maxn) :
        \A i \in 1..(Len(v) - 1) : v[i] <= v[i + 1]}

Construct(is_clf, alpha, Xin, yin) ==
    /\ op = "new"
    /\ op' = "construct"
    /\ arg' = [X |-> Xin, y |-> yin]
    /\ IF ~is_clf THEN Raise("ValueError", 153)
       ELSE IF ~alpha.isfloat \/ ~(0 <= alpha.val /\ alpha.val < One)
       THEN Raise("ValueError", 155)
       ELSE IF Len(Xin) # Len(yin) THEN Raise("ValueError", 159)
       ELSE LET ynew == DenseRank(yin)
                k    == n_actions_of(ynew)
            IN  IF \E i \in DOMAIN yin : ~IndexInBounds(yin[i], k)
                THEN Raise("IndexError", 163)
                ELSE /\ attrs' = CtorAttrs
                     /\ X' = Xin
                     /\ y' = ynew
                     /\ y_full' = OneHot(yin, k)
                     /\ alpha_b' = alpha.val
                     /\ ret' = None
                     /\ UNCHANGED <<X_tr, X_ev, y_tr, y_ev, y_full_ev,
                                    n_rounds_ev, np_random, last_fb>>

\* ---------------------------------------------------------------- split
\* random_state arguments: None or an integer seed
NoSeed == [seeded |-> FALSE, seed |-> 0]
Seeded(s) == [seeded |-> TRUE, seed |-> s]
RandomStates == {NoSeed, Seeded(0), Seeded(1)}
\* None and one integer seed
SamplingStates == {NoSeed, Seeded(1)}

\* eval_size arguments: an int count num, or a float num/den
EvalSizes ==
    {[isfloat |-> FALSE, num |-> c, den |-> 1] : c \in {0, 1}}
    \cup {[isfloat |-> TRUE, num |-> j, den |-> 2] : j \in {1, 2}}

\* sklearn _validate_shuffle_split: the number of test rows, 0 when rejected
NTest(eval_size, n) ==
    IF eval_size.isfloat
    THEN IF eval_size.num <= 0 \/ eval_size.num >= eval_size.den THEN 0
         ELSE LET c == (eval_size.num * n + eval_size.den - 1)
                          \div eval_size.den
              IN  IF n - c = 0 THEN 0 ELSE c
    ELSE IF eval_size.num <= 0 \/ eval_size.num >= n THEN 0
         ELSE eval_size.num

RowPermutations ==
    [n \in 1..MaxRounds |->
        {p \in [1..n -> 1..n] : \A i, j \in 1..n : p[i] = p[j] => i = j}]

Take(a, idx) == [j \in 1..Len(idx) |-> a[idx[j]]]

\* the generator advances by cnt draws
Advance(s, cnt) == (s + cnt) % RngPeriod

\* the mutant: the two parts of the third array come back swapped
train_test_split_SwappedLast(a, b, c, n_test, perm) ==
    LET test  == SubSeq(perm, 1, n_test)
        train == SubSeq(perm, n_test + 1, Len(perm))
    IN  <<Take(a, train), Take(a, test), Take(b, train), Take(b, test),
          Take(c, test), Take(c, train)>>

\* train_test_split(a, b, c, test_size=n_test) with the shuffle perm: the
\* first n_test shuffled rows are the test rows, the rest the train rows;
\* the result is (a_train, a_test, b_train, b_test, c_train, c_test)
train_test_split(a, b, c, n_test, perm) ==
    LET test  == SubSeq(perm, 1, n_test)
        train == SubSeq(perm, n_test + 1, Len(perm))
    IN  <<Take(a, train), Take(a, test), Take(b, train), Take(b, test),
          Take(c, train), Take(c, test)>>

\* the mutant: n_rounds_ev is reset before train_test_split is called, so a
\* rejected eval_size leaves it at 0
split_train_eval_ResetsFirst(eval_size, random_state, perm) ==
    /\ Constructed
    /\ op' = "split_train_eval"
    /\ arg' = None
    /\ LET n_test == NTest(eval_size, Len(X))
       IN  IF n_test = 0
           THEN /\ ret' = Error("ValueError", 204)
                /\ n_rounds_ev' = 0
                /\ attrs' = attrs \cup {"n_rounds_ev"}
                /\ UNCHANGED <<X, y, y_full, alpha_b, X_tr, X_ev, y_tr,
                               y_ev, y_full_ev, np_random, last_fb>>
           ELSE LET parts == train_test_split(X, y, y_full, n_test, perm)
                IN  /\ X_tr' = parts[1]
                    /\ X_ev' = parts[2]
                    /\ y_tr' = parts[3]
                    /\ y_ev' = parts[4]
                    /\ y_full_ev' = parts[6]
                    /\ n_rounds_ev' = Len(parts[2])
                    /\ attrs' = attrs \cup SplitAttrs
                    /\ np_random' = IF random_state.seeded THEN np_random
                                    ELSE Advance(np_random, 1)
                    /\ ret' = None
                    /\ last_fb' = None
                    /\ UNCHANGED <<X, y, y_full, alpha_b>>

split_train_eval(eval_size, random_state, perm) ==
    /\ Constructed
    /\ op' = "split_train_eval"
    /\ arg' = None
    /\ LET n_test == NTest(eval_size, Len(X))
       IN  IF n_test = 0 THEN Raise("ValueError", 204)
           ELSE LET parts == train_test_split(X, y, y_full, n_test, perm)
                IN  /\ X_tr' = parts[1]
                    /\ X_ev' = parts[2]
                    /\ y_tr' = parts[3]
                    /\ y_ev' = parts[4]
                    /\ y_full_ev' = parts[6]
                    /\ n_rounds_ev' = Len(parts[2])
                    /\ attrs' = attrs \cup SplitAttrs
                    /\ np_random' = IF random_state.seeded THEN np_random
                                    ELSE Advance(np_random, 1)
                    /\ ret' = None
                    /\ last_fb' = None
                    /\ UNCHANGED <<X, y, y_full, alpha_b>>

\* ------------------------------------------------------ policy synthesis
\* pi = zeros((n, k)); pi[:, :] = (1.0 - alpha) / k;
\* pi[arange(n), preds] = alpha + (1.0 - alpha) / k
\* the mutant: the uniform part of the predicted action is not divided
PolicyCells_TopUndivided(alpha, k) ==
    [uniform |-> FDivInt(FSub(One, alpha), k),
     top     |-> FAdd(alpha, FSub(One, alpha))]

PolicyCells(alpha, k) ==
    [uniform |-> FDivInt(FSub(One, alpha), k),
     top     |-> FAdd(alpha, FDivInt(FSub(One, alpha), k))]

\* the mixing coefficients that pass validation, and the cells they give
Alphas == {a.val : a \in {b \in AlphaInputs :
                              b.isfloat /\ 0 <= b.val /\ b.val <= One}}
PolicyCellsOf ==
    [a \in Alphas |-> [k \in 1..MaxRounds |-> PolicyCells(a, k)]]

PolicyRow(alpha, pred, k) ==
    [c \in 0..(k - 1) |-> IF c = pred THEN PolicyCellsOf[alpha][k].top
                                      ELSE PolicyCellsOf[alpha][k].uniform]

PolicyMatrix(alpha, preds, n, k) ==
    [i \in 1..n |-> PolicyRow(alpha, preds[i], k)]

\* what classifier.predict(X_ev) can return: a class 0..n_actions-1 for
\* every row of X_ev
Predictions == [1..n_rounds_ev -> 0..(n_actions - 1)]

\* ------------------------------------------------------------- sampling
\* RandomState(seed).random_sample(): the first draws of numpy's generator
\* for the seeds 0 and 1 (0.5488135, 0.7151894; 0.4170220, 0.7203245), to
\* four decimal places
SeedStream ==
    [seed \in {0, 1} |->
        IF seed = 0
        THEN <<Literal(5488, 10000), Literal(7152, 10000)>>
        ELSE <<Literal(4170, 10000), Literal(7203, 10000)>>]

\* the global generator was seeded by nobody: each of its draws is any
\* float of a grid of [0, 1)
UniformGrid == {Literal(j, 8) : j \in {1, 3, 5, 7}}

\* the floats the global generator yields during one call that draws cnt
\* times from the generator random_: none when random_ is a seeded one
GlobalDraws(random_, cnt) ==
    IF random_.global THEN [1..cnt -> UniformGrid] ELSE {<<>>}

\* the i-th uniform float that a generator returned by check_random_state
\* yields, draws being what the global generator yields during the call
Uniform(random_, i, draws) ==
    IF random_.global
    THEN draws[i]
    ELSE SeedStream[random_.seed][random_.state + i]

\* every float a generator of the model can yield
Uniforms ==
    UniformGrid \cup {SeedStream[seed][i] : seed \in {0, 1}, i \in 1..2}

\* the first c + 1 entries of a row, as a sequence
Prefix(p, c) == [j \in 1..(c + 1) |-> p[j - 1]]

\* RandomState.choice(arange(k), p=p, replace=False) with one uniform u:
\* cdf = cumsum(p); cdf /= cdf[-1]; cdf.searchsorted(u, side="right")
Choice(p, k, u) ==
    LET cdf  == [c \in 0..(k - 1) |-> FSum(Prefix(p, c))]
        ncdf == [c \in 0..(k - 1) |-> FDiv(cdf[c], cdf[k - 1])]
    IN  Cardinality({c \in 0..(k - 1) : ncdf[c] <= u})

\* Choice for every row a policy can have and every uniform float
ChoiceOf ==
    [a \in Alphas |-> [k \in 1..MaxRounds |-> [pred \in 0..(k - 1) |->
        [u \in Uniforms |-> Choice(PolicyRow(a, pred, k), k, u)]]]]

\* reward = y_full_ev[arange(n_rounds_ev), action]
Reward(yfull_ev, action) ==
    [i \in DOMAIN action |-> yfull_ev[i][action[i]]]

\* the mutant: the probability of action 0 in every row
Pscore_FirstColumn(pi_b, action) ==
    [i \in DOMAIN action |-> pi_b[i][0]]

\* pscore = pi_b[arange(n_rounds_ev), action]
Pscore(pi_b, action) ==
    [i \in DOMAIN action |-> pi_b[i][action[i]]]

\* check_random_state(random_state): a fresh generator for an integer
\* seed, numpy's global generator for None
check_random_state(random_state) ==
    IF random_state.seeded
    THEN [global |-> FALSE, seed |-> random_state.seed, state |-> 0]
    ELSE [global |-> TRUE, seed |-> 0, state |-> np_random]

\* the call with what happens inside it: preds is what
\* classifier.predict(X_ev) returns and draws is what the global generator
\* yields; track says whether the history remembers the call
Sample(random_state, preds, track, draws) ==
    LET k      == n_actions
        random_ == check_random_state(random_state)
        pi_b   == PolicyMatrix(alpha_b, preds, n_rounds_ev, k)
        action == [i \in 1..n_rounds_ev |->
                     ChoiceOf[alpha_b][k][preds[i]]
                             [Uniform(random_, i, draws)]]
        reward == Reward(y_full_ev, action)
        fb     == [kind |-> "feedback",
                   n_actions |-> k,
                   n_rounds |-> n_rounds_ev,
                   context |-> X_ev,
                   action |-> action,
                   reward |-> reward,
                   position |-> "None",
                   pscore |-> Pscore(pi_b, action),
                   \* locals of the call, kept for the properties
                   pi_b |-> pi_b,
                   preds |-> preds,
                   random_state |-> random_state]
    IN  /\ ret' = fb
        /\ np_random' = IF random_.global
                        THEN Advance(np_random, n_rounds_ev)
                        ELSE np_random
        /\ last_fb' = IF track THEN [kind |-> "tracked", fb |-> fb]
                       ELSE last_fb
        /\ UNCHANGED dataset

\* classifier.fit(X_tr, y_tr) raises when the classifier cannot be fitted
\* on the training rows, else classifier.predict(X_ev) returns a class for
\* every evaluation row
obtain_batch_bandit_feedback(random_state, track) ==
    /\ Constructed
    /\ op' = "obtain_batch_bandit_feedback"
    /\ arg' = None
    /\ IF ~HasAttr("X_tr") THEN Raise("AttributeError", 233)
       ELSE \/ Raise("FitError", 233)
            \/ \E preds \in Predictions :
                  \E draws \in GlobalDraws(check_random_state(random_state),
                                           n_rounds_ev) :
                     Sample(random_state, preds, track, draws)

\* np.expand_dims(pi, 2)
ExpandDims(pi) ==
    [i \in DOMAIN pi |-> [c \in DOMAIN pi[i] |-> <<pi[i][c]>>]]

Classifiers == {"None", "classifier", "other"}

obtain_action_dist_by_eval_policy(base_classifier_e, alpha_e) ==
    /\ Constructed
    /\ op' = "obtain_action_dist_by_eval_policy"
    /\ arg' = None
    /\ IF ~alpha_e.isfloat \/ ~(0 <= alpha_e.val /\ alpha_e.val <= One)
       THEN Raise("ValueError", 283)
       ELSE IF base_classifier_e = "other" THEN Raise("AssertionError", 290)
       ELSE IF ~HasAttr("X_tr") THEN Raise("AttributeError", 294)
       ELSE \/ Raise("FitError", 294)
            \/ \E preds \in Predictions :
                  LET k    == n_actions
                      pi_e == PolicyMatrix(alpha_e.val, preds, n_rounds_ev, k)
                  IN  /\ ret' = [kind |-> "action_dist",
                                 isarray |-> TRUE,
                                 shape |-> <<n_rounds_ev, k, 1>>,
                                 data |-> ExpandDims(pi_e),
                                 \* locals of the call, kept for the
                                 \* properties
                                 preds |-> preds,
                                 alpha_e |-> alpha_e.val]
                      /\ UNCHANGED <<dataset, np_random, last_fb>>

\* --------------------------------------------------------- ground truth
\* an array of the given shape whose entries are all v, from a caller
Filled(shape, v) ==
    [kind |-> "action_dist", isarray |-> TRUE, shape |-> shape,
     data |-> IF Len(shape) = 3
              THEN [i \in 1..shape[1] |-> [c \in 0..(shape[2] - 1) |->
                       [j \in 1..shape[3] |-> v]]]
              ELSE [i \in 1..shape[1] |-> [c \in 0..(shape[2] - 1) |-> v]],
     preds |-> <<>>, alpha_e |-> -1]

\* the float 1/c, for every width c of an array
UniformFill == [c \in 1..(MaxRounds + 1) |-> Literal(1, c)]

NotAnArray == [kind |-> "action_dist", isarray |-> FALSE, shape |-> <<>>,
               data |-> <<>>, preds |-> <<>>, alpha_e |-> -1]

\* the arrays a caller passes: of the documented shape, or off by one in
\* an axis, or without the third axis, or not an array
CallerArrays ==
    LET r == IF "n_rounds_ev" \in attrs THEN n_rounds_ev ELSE 1
        k == n_actions
    IN  {Filled(shape, UniformFill[shape[2]]) :
            shape \in {<<r, k, 1>>, <<r + 1, k, 1>>, <<r, k + 1, 1>>,
                       <<r, k, 2>>, <<r, k>>}
                      \cup (IF k > 1 THEN {<<r, k - 1, 1>>} ELSE {})}
        \cup {NotAnArray}

\* the array of the documented shape (n_rounds_ev, n_actions, 1)
DocumentedArray ==
    LET r == IF "n_rounds_ev" \in attrs THEN n_rounds_ev ELSE 1
    IN  Filled(<<r, n_actions, 1>>, UniformFill[n_actions])

\* the mutant: takes the first action of every row instead of y_ev
Selected_FirstAction(action_dist) ==
    LET t == action_dist.shape[3]
    IN  [m \in 1..(n_rounds_ev * t) |->
            action_dist.data[((m - 1) \div t) + 1]
                            [0]
                            [((m - 1) % t) + 1]]

\* action_dist[np.arange(n_rounds_ev), y_ev], flattened in row order
Selected(action_dist) ==
    LET t == action_dist.shape[3]
    IN  [m \in 1..(n_rounds_ev * t) |->
            action_dist.data[((m - 1) \div t) + 1]
                            [y_ev[((m - 1) \div t) + 1]]
                            [((m - 1) % t) + 1]]

\* ndarray.mean(): the float sum over the count
Mean(s) == FDivInt(FSum(s), Len(s))

calc_ground_truth_policy_value(action_dist) ==
    /\ Constructed
    /\ op' = "calc_ground_truth_policy_value"
    /\ arg' = action_dist
    /\ IF ~action_dist.isarray \/ Len(action_dist.shape) # 3
       THEN Raise("ValueError", 322)
       ELSE IF ~HasAttr("n_rounds_ev") THEN Raise("AttributeError", 323)
       ELSE IF action_dist.shape[1] # n_rounds_ev
       THEN Raise("ValueError", 324)
       ELSE IF \E i \in 1..n_rounds_ev : y_ev[i] >= action_dist.shape[2]
       THEN Raise("IndexError", 327)
       ELSE /\ ret' = [kind |-> "value",
                       value |-> Mean(Selected(action_dist))]
            /\ UNCHANGED <<dataset, np_random, last_fb>>

\* ------------------------------------------------------- specifications
Init ==
    /\ attrs = {}
    /\ X = <<>> /\ y = <<>> /\ y_full = <<>> /\ alpha_b = 0
    /\ X_tr = <<>> /\ X_ev = <<>> /\ y_tr = <<>> /\ y_ev = <<>>
    /\ y_full_ev = <<>> /\ n_rounds_ev = 0
    /\ np_random = 0
    /\ op = "new" /\ arg = None /\ ret = None /\ last_fb = None

ConstructOp(vectors, maxn) ==
    \E is_clf \in BOOLEAN, alpha \in AlphaInputs, n \in 1..maxn,
       yin \in vectors :
          Construct(is_clf, alpha, Features(n), yin)

\* the shuffles train_test_split can draw: none when it rejects eval_size
\* before drawing, else every permutation of the rows
Shuffles(eval_size) ==
    IF NTest(eval_size, Len(X)) = 0 THEN {<<>>}
    ELSE RowPermutations[Len(X)]

SplitOp(random_states) ==
    \E eval_size \in EvalSizes, random_state \in random_states :
       \E perm \in Shuffles(eval_size) :
          split_train_eval(eval_size, random_state, perm)

BuildOp      == ConstructOp(LabelVectors(RawLabels, MaxRounds), MaxRounds)
SeedSplitOp  == SplitOp({Seeded(0)})
NewOp ==
    ConstructOp(SortedLabelVectors(RawLabels, MaxOpRounds), MaxOpRounds)
PlainSplitOp == SplitOp({NoSeed})

\* datasets whose labels are their own ranks, class by class
RankedNewOp ==
    ConstructOp(SortedLabelVectors(0..(MaxPolicyRounds - 1), MaxPolicyRounds),
                MaxPolicyRounds)

FeedbackOp ==
    \E random_state \in RandomStates :
        obtain_batch_bandit_feedback(random_state, FALSE)

\* the history remembers the first call made since the split
TrackedFeedbackOp ==
    \E random_state \in SamplingStates :
        obtain_batch_bandit_feedback(random_state, last_fb.kind = "none")

SeededFeedbackOp == obtain_batch_bandit_feedback(Seeded(0), FALSE)

EvalPolicyOp ==
    \E base_classifier_e \in Classifiers, alpha_e \in AlphaInputs :
        obtain_action_dist_by_eval_policy(base_classifier_e, alpha_e)

ClassifierEvalOp ==
    \E alpha_e \in AlphaInputs :
        obtain_action_dist_by_eval_policy("classifier", alpha_e)

GroundTruthOp ==
    \E action_dist \in CallerArrays
                       \cup (IF ret.kind = "action_dist" THEN {ret} ELSE {}) :
        calc_ground_truth_policy_value(action_dist)

\* the ground truth of the array of the documented shape
ValueOp == calc_ground_truth_policy_value(DocumentedArray)

\* the ground truth of the action distribution that was just returned
ReturnedValueOp ==
    /\ ret.kind = "action_dist"
    /\ calc_ground_truth_policy_value(ret)

\* construction and splitting only
NextData == BuildOp \/ SeedSplitOp
SpecData == Init /\ [][NextData]_vars

\* the whole interface
Next == NewOp \/ PlainSplitOp \/ FeedbackOp \/ EvalPolicyOp \/ GroundTruthOp
Spec == Init /\ [][Next]_vars

\* the policies and their ground truth, on datasets of more rows and classes
NextPolicy ==
    RankedNewOp \/ SeedSplitOp \/ SeededFeedbackOp \/ ClassifierEvalOp
        \/ ReturnedValueOp
SpecPolicy == Init /\ [][NextPolicy]_vars

\* sampling and the calls between two samplings, with the history
NextDet == NewOp \/ SeedSplitOp \/ TrackedFeedbackOp \/ ValueOp
SpecDet == Init /\ [][NextDet]_vars

\* ----------------------------------------------------------- properties
FEEDBACK     == "obtain_batch_bandit_feedback"
GROUND_TRUTH == "calc_ground_truth_policy_value"
HasSplit     == "n_rounds_ev" \in attrs

\* the index of a feature row in X (the rows of X are distinct)
RowOf(x) == CHOOSE i \in DOMAIN X : X[i] = x

IsOneHotAt(row, k, col) ==
    \A c \in 0..(k - 1) : row[c] = IF c = col THEN 1 ELSE 0

\* C1: after construction the labels are exactly 0..k-1, ranked in the order
\* of the raw labels, k is the number of distinct raw labels, and row i of
\* y_full has its single 1 at column y[i]; no label vector that passed input
\* validation makes the constructor fail.
C1_LabelsAndRewards ==
    /\ (op = "construct" => ret # Error("IndexError", 163))
    /\ (op = "construct" /\ Constructed =>
          /\ Range(y) = 0..(n_actions - 1)
          /\ n_actions = Cardinality(Range(arg.y))
          /\ \A i, j \in DOMAIN y : (arg.y[i] < arg.y[j]) <=> (y[i] < y[j])
          /\ DOMAIN y_full = 1..n_rounds
          /\ \A i \in DOMAIN y : IsOneHotAt(y_full[i], n_actions, y[i]))

\* C2: in every returned feedback, reward[i] is 1 when action[i] is the
\* normalized label y_ev[i] of evaluation row i, and 0 otherwise.
C2_RewardIffTrueLabel ==
    (op = FEEDBACK /\ ret.kind = "feedback") =>
        \A i \in 1..n_rounds_ev :
            ret.reward[i] = IF ret.action[i] = y_ev[i] THEN 1 ELSE 0

\* the policy matrix the last call built, its mixing coefficient and the
\* predictions it was built from
BuiltPolicy == ret.kind \in {"feedback", "action_dist"}
BuiltMatrix ==
    IF ret.kind = "feedback" THEN ret.pi_b
    ELSE [i \in DOMAIN ret.data |->
             [c \in DOMAIN ret.data[i] |-> ret.data[i][c][1]]]
BuiltAlpha == IF ret.kind = "feedback" THEN alpha_b ELSE ret.alpha_e

RowSum(row, k) == FSum([j \in 1..k |-> row[j - 1]])

PolicyShape ==
    /\ DOMAIN BuiltMatrix = 1..n_rounds_ev
    /\ \A i \in 1..n_rounds_ev :
          /\ DOMAIN BuiltMatrix[i] = 0..(n_actions - 1)
          /\ \A c \in 0..(n_actions - 1) :
                /\ BuiltMatrix[i][c] >= 0
                /\ ret.kind = "feedback" => BuiltMatrix[i][c] > 0
                /\ BuiltMatrix[i][c] =
                      IF c = ret.preds[i]
                      THEN FAdd(BuiltAlpha,
                                FDivInt(FSub(One, BuiltAlpha), n_actions))
                      ELSE FDivInt(FSub(One, BuiltAlpha), n_actions)

\* C3 as stated: every row of a synthesized policy matrix sums to exactly 1,
\* every entry is non-negative and has the stated value, and every entry of
\* the behavior policy is strictly positive.
C3_RowsSumToExactlyOne ==
    BuiltPolicy =>
        /\ PolicyShape
        /\ \A i \in 1..n_rounds_ev : RowSum(BuiltMatrix[i], n_actions) = One

\* C3 amended: every row sums to 1 up to the rounding of its float
\* operations (the sum taken left to right is within n_actions machine
\* epsilons of 1), every entry is non-negative and has the stated value, and
\* every entry of the behavior policy is strictly positive.
C3_RowsSumToOneWithinRounding ==
    BuiltPolicy =>
        /\ PolicyShape
        /\ \A i \in 1..n_rounds_ev :
              /\ RowSum(BuiltMatrix[i], n_actions) >= One - n_actions * Eps
              /\ RowSum(BuiltMatrix[i], n_actions) <= One + n_actions * Eps

\* a behavior policy of three actions with a non-uniform row whose float
\* sum is not 1
C3_Witness ==
    /\ ret.kind = "feedback"
    /\ n_actions = 3
    /\ alpha_b > 0
    /\ RowSum(ret.pi_b[1], n_actions) # One

\* C4: pscore[i] is the entry pi_b[i, action[i]] of the behavior policy: the
\* top mass when the sampled action is the prediction for row i, the
\* uniform mass otherwise.
C4_PscoreIsBehaviorProbability ==
    (op = FEEDBACK /\ ret.kind = "feedback") =>
        \A i \in 1..n_rounds_ev :
            /\ ret.pscore[i] = ret.pi_b[i][ret.action[i]]
            /\ ret.pscore[i] =
                  IF ret.action[i] = ret.preds[i]
                  THEN FAdd(alpha_b, FDivInt(FSub(One, alpha_b), n_actions))
                  ELSE FDivInt(FSub(One, alpha_b), n_actions)

\* feedback whose sampled action is not the predicted one
C4_Witness ==
    /\ op = FEEDBACK /\ ret.kind = "feedback"
    /\ alpha_b > 0
    /\ ret.action[1] # ret.preds[1]
    /\ ret.pscore[1] < ret.pi_b[1][ret.preds[1]]

\* C5: while no split has been made, obtain_batch_bandit_feedback and
\* calc_ground_truth_policy_value raise and return nothing.
C5_FailBeforeSplit ==
    (op \in {FEEDBACK, GROUND_TRUTH} /\ ~HasSplit) => ret.kind = "error"

\* feedback was asked for before any split and the call raised
C5_Witness ==
    /\ op = FEEDBACK /\ ~HasSplit
    /\ ret = Error("AttributeError", 233)

\* C6: calc_ground_truth_policy_value raises for every action_dist whose
\* shape is not (n_rounds_ev, n_actions, 1).
C6_RejectsEveryOtherShape ==
    (op = GROUND_TRUTH /\ HasSplit
        /\ (~arg.isarray \/ arg.shape # <<n_rounds_ev, n_actions, 1>>))
    => ret.kind = "error"

\* rows of the evaluation partition that the classifier got right
Correct(preds) == Cardinality({i \in 1..n_rounds_ev : preds[i] = y_ev[i]})

\* C7: the ground truth of the action distribution built with alpha_e = 1.0
\* is the accuracy of the predictions on the evaluation partition.
C7_GroundTruthIsAccuracy ==
    (op = GROUND_TRUTH /\ arg.alpha_e = One) =>
        /\ ret.kind = "value"
        /\ ret.value = Round(Correct(arg.preds) * One, n_rounds_ev)

\* the deterministic policy of a classifier that is right on one of two
\* evaluation rows, among three classes: the ground truth is one half
C7_Witness ==
    /\ op = GROUND_TRUTH /\ arg.alpha_e = One
    /\ n_actions = 3 /\ n_rounds_ev = 2
    /\ Correct(arg.preds) = 1
    /\ ret.kind = "value" /\ ret.value = Literal(1, 2)

\* C8: the stored split is one partition of the rows: training and
\* evaluation rows are disjoint and cover X, n_rounds_ev counts the
\* evaluation rows, and X_ev, y_ev, y_full_ev (X_tr, y_tr) hold the same
\* original rows in the same order.
C8_SplitIsOnePartition ==
    HasSplit =>
        /\ Range(X_tr) \cap Range(X_ev) = {}
        /\ Range(X_tr) \cup Range(X_ev) = Range(X)
        /\ Len(X_tr) + Len(X_ev) = Len(X)
        /\ n_rounds_ev = Len(X_ev)
        /\ Len(y_ev) = n_rounds_ev /\ Len(y_full_ev) = n_rounds_ev
        /\ Len(y_tr) = Len(X_tr)
        /\ \A j \in 1..Len(X_ev) :
              /\ y_ev[j] = y[RowOf(X_ev[j])]
              /\ y_full_ev[j] = y_full[RowOf(X_ev[j])]
        /\ \A j \in 1..Len(X_tr) : y_tr[j] = y[RowOf(X_tr[j])]

\* a split of three rows whose two evaluation rows are out of order
C8_Witness ==
    /\ HasSplit /\ op = "split_train_eval"
    /\ n_rounds_ev = 2 /\ Len(X) = 3
    /\ RowOf(X_ev[1]) > RowOf(X_ev[2])
    /\ y_ev[1] # y_ev[2]

SameFeedback(f, g) ==
    /\ f.action = g.action
    /\ f.reward = g.reward
    /\ f.pscore = g.pscore

\* C9: a feedback call with the random_state (an integer seed or None) and
\* the policy matrix of an earlier call on the same split returns the same
\* action, reward and pscore: nothing is drawn from the global generator.
C9_SameSeedSameFeedback ==
    [][(op' = FEEDBACK /\ ret'.kind = "feedback" /\ last_fb.kind = "tracked"
          /\ ret'.random_state = last_fb.fb.random_state
          /\ ret'.pi_b = last_fb.fb.pi_b)
       => SameFeedback(ret', last_fb.fb)]_vars

\* C10: a call that raises changes no attribute of the dataset and draws
\* nothing from the global generator.
C10_RejectedCallsChangeNothing ==
    [][ret'.kind = "error" => UNCHANGED <<dataset, np_random>>]_vars

\* a rejected split that left the earlier split in place
C10_Witness ==
    /\ op = "split_train_eval" /\ ret.kind = "error"
    /\ HasSplit /\ n_rounds_ev = 1 /\ Len(X_tr) = 1

====
